---- MODULE Spec2Model ----
(***************************************************************************)
(* A model of imap-mcp: the per-account IMAP connection pool of the imap   *)
(* module (getClient and the idle reaper), the tool handlers that use it,  *)
(* and the session router of the HTTP server (createSession and the /mcp   *)
(* routes).                                                                *)
(***************************************************************************)
EXTENDS Integers, FiniteSets, Sequences, TLC

VARIABLES
    now,         \* Date.now(), in milliseconds since the module was loaded
    ticks,       \* how many times the clock has advanced (bounded)
    reaperDue,   \* whether the interval timer has expired since the last pass
    pool,        \* the Map pool: a set of entries [key, client, lastUsed]
    clients,     \* every ImapFlow object: [acct, state, closeCalled]
    nextClient,  \* the number of ImapFlow objects constructed so far
    ops,         \* the tool-handler invocations in flight
    sessions,    \* the sessions object: a set of [key, transport, server]
    convs,       \* every transport created by createSession, by creation index
    created,     \* the number of createSession calls so far
    pending,     \* POST requests suspended inside createSession
    last,        \* the response to the request answered most recently
    call,        \* the call of an imap function under way: inputs and results
    cfg          \* the loadConfig call: its input file and its outcome

vars == <<now, ticks, reaperDue, pool, clients, nextClient, ops,
          sessions, convs, created, pending, last, call, cfg>>

poolVars == <<now, ticks, reaperDue, pool, clients, nextClient>>
routerVars == <<sessions, convs, created, pending, last>>
fnVars == <<call, cfg>>

----------------------------------------------------------------------------
(* Bounds of the model.                                                    *)

MaxTicks == 2
MaxClients == 2
MaxOps == 2
MaxRouterOps == 1
MaxConvs == 2
MaxPending == 1
MaxUid == 3
MaxList == 3
MaxLimit == 3
MaxAccounts == 2
MaxChildren == 2

(* Program constants.                                                      *)

ReaperPeriodMs == 60000
IdleThresholdMs == 5 * 60000

(* The accounts of the loaded configuration, and the account names a       *)
(* request may carry (one of them is not configured).                      *)
Accounts == {"a1", "a2"}
AccountNames == Accounts \cup {"zz"}

(* The account names carried by the tool calls that arrive over HTTP.      *)
RouterAccountNames == {"a1", "zz"}

ToolNames == {"search_messages", "read_message"}

ClientIds == 1..MaxClients
OpIds == 1..MaxOps
RouterOpIds == {o \in OpIds : o <= MaxRouterOps}

(* The amounts by which the clock advances between two steps.              *)
TimeSteps == {ReaperPeriodMs, IdleThresholdMs}

NoClient == [acct |-> "", state |-> "none", closeCalled |-> FALSE]
IdleOp == [pc |-> "idle", tool |-> "", acct |-> "", client |-> 0,
           server |-> 0, via |-> 0, err |-> "none"]

----------------------------------------------------------------------------
(* The pool: a JavaScript Map keyed by account name.                       *)

PoolKeys == {e.key : e \in pool}

PoolGet(k) == {e \in pool : e.key = k}

(* A pool.set that leaves the key's previous entry in place.               *)
PoolSetKeepOld(p, k, c, t) ==
    p \cup {[key |-> k, client |-> c, lastUsed |-> t]}

PoolSet(p, k, c, t) ==
    {e \in p : e.key # k} \cup {[key |-> k, client |-> c, lastUsed |-> t]}

(* ImapFlow's usable flag: set by a successful connect, cleared when the   *)
(* connection is closed or lost.                                           *)
Usable(c) == clients[c].state = "usable"

(* A lookup that does not test the usable flag.                            *)
CachedAny(k) == PoolGet(k)

(* cached?.client?.usable                                                  *)
CachedUsable(k) == {e \in PoolGet(k) : Usable(e.client)}

(* A reuse that does not refresh lastUsed.                                 *)
PoolTouchNoRefresh(p, e, t) == p

(* cached.lastUsed = Date.now(): the entry is updated in place.            *)
PoolTouch(p, e, t) == (p \ {e}) \cup {[e EXCEPT !.lastUsed = t]}

(* An idle test that already evicts at the threshold.                      *)
StaleAtThreshold(e, t) == t - e.lastUsed >= IdleThresholdMs

(* The reaper's test of one entry at time t.                               *)
Stale(e, t) == t - e.lastUsed > IdleThresholdMs

----------------------------------------------------------------------------
(* A getClient that puts the new client into the pool before connecting.   *)
GetClientStartPublishing(o, srv, via, tool, acct) ==
    IF CachedUsable(acct) # {}
    THEN LET e == CHOOSE x \in CachedUsable(acct) : TRUE IN
         /\ pool' = PoolTouch(pool, e, now)
         /\ ops' = [ops EXCEPT ![o] = [pc |-> "mailboxOpen", tool |-> tool,
                        acct |-> acct, client |-> e.client,
                        server |-> srv, via |-> via,
                        err |-> "none"]]
         /\ UNCHANGED <<clients, nextClient>>
    ELSE /\ nextClient < MaxClients
         /\ nextClient' = nextClient + 1
         /\ clients' = [clients EXCEPT ![nextClient + 1] =
                [acct |-> acct, state |-> "connecting", closeCalled |-> FALSE]]
         /\ ops' = [ops EXCEPT ![o] = [pc |-> "connecting", tool |-> tool,
                        acct |-> acct, client |-> nextClient + 1,
                        server |-> srv, via |-> via, err |-> "none"]]
         /\ pool' = PoolSet(pool, acct, nextClient + 1, now)

(* getClient, up to its first suspension: either the cached client is      *)
(* returned (and the caller goes on to mailboxOpen), or a new ImapFlow is  *)
(* constructed and the call is suspended in client.connect().              *)
GetClientStart(o, srv, via, tool, acct) ==
    IF CachedUsable(acct) # {}
    THEN LET e == CHOOSE x \in CachedUsable(acct) : TRUE IN
         /\ pool' = PoolTouch(pool, e, now)
         /\ ops' = [ops EXCEPT ![o] = [pc |-> "mailboxOpen", tool |-> tool,
                        acct |-> acct, client |-> e.client,
                        server |-> srv, via |-> via,
                        err |-> "none"]]
         /\ UNCHANGED <<clients, nextClient>>
    ELSE /\ nextClient < MaxClients
         /\ nextClient' = nextClient + 1
         /\ clients' = [clients EXCEPT ![nextClient + 1] =
                [acct |-> acct, state |-> "connecting", closeCalled |-> FALSE]]
         /\ ops' = [ops EXCEPT ![o] = [pc |-> "connecting", tool |-> tool,
                        acct |-> acct, client |-> nextClient + 1,
                        server |-> srv, via |-> via, err |-> "none"]]
         /\ UNCHANGED pool

(* A handler that does not check the account name.                        *)
AccountKnownAnyName(acct) == TRUE

(* accounts.find(...) of a tool handler: an unknown name throws before     *)
(* searchMessages / readMessage is called.                                 *)
AccountKnown(acct) == acct \in Accounts

(* The search_messages and read_message handlers of createMcpServer, run   *)
(* on server srv, up to their first suspension.                            *)
InvokeTool(o, srv, via, tool, acct) ==
    /\ ops[o].pc = "idle"
    /\ IF AccountKnown(acct)
       THEN GetClientStart(o, srv, via, tool, acct)
       ELSE /\ ops' = [ops EXCEPT ![o] = [pc |-> "failed", tool |-> tool,
                          acct |-> acct, client |-> 0,
                          server |-> srv, via |-> via,
                          err |-> "unknown"]]
            /\ UNCHANGED <<pool, clients, nextClient>>

(* A getClient that keeps the entry of a usable session it finds after     *)
(* connecting.                                                             *)
ConnectOkKeepsFirst(o) ==
    /\ ops[o].pc = "connecting"
    /\ clients' = [clients EXCEPT ![ops[o].client].state = "usable"]
    /\ pool' = IF CachedUsable(ops[o].acct) # {}
               THEN pool
               ELSE PoolSet(pool, ops[o].acct, ops[o].client, now)
    /\ ops' = [ops EXCEPT ![o].pc = "mailboxOpen"]
    /\ UNCHANGED <<now, ticks, reaperDue, nextClient>>
    /\ UNCHANGED routerVars

(* await client.connect() resolves: the entry is published and the client  *)
(* returned; the caller issues mailboxOpen.                                *)
ConnectOk(o) ==
    /\ ops[o].pc = "connecting"
    /\ clients' = [clients EXCEPT ![ops[o].client].state = "usable"]
    /\ pool' = PoolSet(pool, ops[o].acct, ops[o].client, now)
    /\ ops' = [ops EXCEPT ![o].pc = "mailboxOpen"]
    /\ UNCHANGED <<now, ticks, reaperDue, nextClient>>
    /\ UNCHANGED routerVars

(* A getClient that publishes the client although connect rejected.        *)
ConnectFailCached(o) ==
    /\ ops[o].pc = "connecting"
    /\ clients' = [clients EXCEPT ![ops[o].client].state = "failed"]
    /\ pool' = PoolSet(pool, ops[o].acct, ops[o].client, now)
    /\ ops' = [ops EXCEPT ![o].pc = "failed", ![o].err = "connect"]
    /\ UNCHANGED <<now, ticks, reaperDue, nextClient>>
    /\ UNCHANGED routerVars

(* await client.connect() rejects: getClient throws, and so does the       *)
(* handler.                                                                *)
ConnectFail(o) ==
    /\ ops[o].pc = "connecting"
    /\ clients' = [clients EXCEPT ![ops[o].client].state = "failed"]
    /\ ops' = [ops EXCEPT ![o].pc = "failed", ![o].err = "connect"]
    /\ UNCHANGED <<now, ticks, reaperDue, pool, nextClient>>
    /\ UNCHANGED routerVars

(* One remote command of searchMessages / readMessage resolves.            *)
(* readMessage issues no search; an empty search result returns [] with no *)
(* fetch; a fetch of read_message that yields nothing makes the handler    *)
(* throw "Message not found".                                              *)
RemoteOk(o, empty) ==
    /\ ops[o].pc \in {"mailboxOpen", "search", "fetch"}
    /\ Usable(ops[o].client)
    /\ ops' = [ops EXCEPT ![o] =
         CASE ops[o].pc = "mailboxOpen" /\ ops[o].tool = "search_messages" ->
                [@ EXCEPT !.pc = "search"]
           [] ops[o].pc = "mailboxOpen" ->
                [@ EXCEPT !.pc = "fetch"]
           [] ops[o].pc = "search" ->
                [@ EXCEPT !.pc = IF empty THEN "done" ELSE "fetch"]
           [] OTHER ->
                IF empty /\ ops[o].tool = "read_message"
                THEN [@ EXCEPT !.pc = "failed", !.err = "notfound"]
                ELSE [@ EXCEPT !.pc = "done"]]
    /\ UNCHANGED poolVars
    /\ UNCHANGED routerVars

(* A handler that drops the pool entry of its account when a remote        *)
(* command rejects.                                                        *)
RemoteFailEvicts(o) ==
    /\ ops[o].pc \in {"mailboxOpen", "search", "fetch"}
    /\ ops' = [ops EXCEPT ![o].pc = "failed", ![o].err = "remote"]
    /\ pool' = {e \in pool : e.key # ops[o].acct}
    /\ UNCHANGED <<now, ticks, reaperDue, clients, nextClient>>
    /\ UNCHANGED routerVars

(* One remote command rejects: the handler throws.                         *)
RemoteFail(o) ==
    /\ ops[o].pc \in {"mailboxOpen", "search", "fetch"}
    /\ ops' = [ops EXCEPT ![o].pc = "failed", ![o].err = "remote"]
    /\ UNCHANGED poolVars
    /\ UNCHANGED routerVars

(* The connection of a usable client is lost.                              *)
ClientDrop(c) ==
    /\ Usable(c)
    /\ clients' = [clients EXCEPT ![c].state = "dropped"]
    /\ UNCHANGED <<now, ticks, reaperDue, pool, nextClient, ops>>
    /\ UNCHANGED routerVars

(* Time passes: at least one period of the interval timer, which expires.  *)
Tick(d) ==
    /\ ticks < MaxTicks
    /\ ticks' = ticks + 1
    /\ now' = now + d
    /\ reaperDue' = (reaperDue \/ d >= ReaperPeriodMs)
    /\ UNCHANGED <<pool, clients, nextClient, ops>>
    /\ UNCHANGED routerVars

(* v.client.close() inside try / catch: the call is made; when it throws   *)
(* the error is swallowed and the client is left as it was.                *)
CloseClient(cl, throws) ==
    [cl EXCEPT !.closeCalled = TRUE,
               !.state = IF throws THEN @ ELSE "closed"]

(* A pass without the try / catch: an entry whose close() throws is not    *)
(* deleted.                                                                *)
ReaperKeepsThrowing(thrown) ==
    /\ reaperDue
    /\ LET stale == {e \in pool : Stale(e, now)} IN
       /\ thrown \subseteq stale
       /\ clients' = [c \in ClientIds |->
              IF \E e \in stale : e.client = c
              THEN CloseClient(clients[c], \E e \in thrown : e.client = c)
              ELSE clients[c]]
       /\ pool' = {e \in pool : e \notin stale \/ e \in thrown}
    /\ reaperDue' = FALSE
    /\ UNCHANGED <<now, ticks, nextClient, ops>>
    /\ UNCHANGED routerVars

(* The setInterval callback: one pass over the pool.  thrown is the set of *)
(* entries whose close() throws.                                           *)
Reaper(thrown) ==
    /\ reaperDue
    /\ LET stale == {e \in pool : Stale(e, now)} IN
       /\ thrown \subseteq stale
       /\ clients' = [c \in ClientIds |->
              IF \E e \in stale : e.client = c
              THEN CloseClient(clients[c], \E e \in thrown : e.client = c)
              ELSE clients[c]]
       /\ pool' = {e \in pool : e \notin stale}
    /\ reaperDue' = FALSE
    /\ UNCHANGED <<now, ticks, nextClient, ops>>
    /\ UNCHANGED routerVars

----------------------------------------------------------------------------
(* The session router.                                                     *)

ConvIds == 1..MaxConvs
PendingIds == 1..MaxPending

(* The values of the mcp-session-id header: 0 is an absent header, and     *)
(* MaxConvs + 1 is an id that createSession never issued.                  *)
Keys == 0..(MaxConvs + 1)

Bodies == {"initialize", "sessions/create", "tools/call", "other"}

NoConv == [sid |-> 0, server |-> 0, state |-> "none", tsid |-> 0,
           connected |-> FALSE, disclosed |-> FALSE, out |-> {}]
IdlePending == [pc |-> "idle", body |-> "", conv |-> 0, hdrOk |-> FALSE]
NoResponse == [status |-> 0, structured |-> FALSE, code |-> 0,
               dispatched |-> 0, created |-> 0]

(* The placeholder McpServer that createHttpApp returns; it is connected   *)
(* to no transport.                                                        *)
PlaceholderServer == 0

(* randomUUID(): an id no earlier call returned.                           *)
RandomUUID(n) == n + 1

(* A createSession that binds every conversation to the placeholder.      *)
CreateMcpServerShared(n) == PlaceholderServer

(* createMcpServer(config): a new McpServer with its own handlers.         *)
CreateMcpServer(n) == n + 1

(* The session ids a client can send: none, one that was never issued, or *)
(* one it has read from the Mcp-Session-Id header of a response (a random  *)
(* UUID cannot be guessed).                                                *)
Sendable(key) ==
    \/ key = 0
    \/ key = MaxConvs + 1
    \/ \E t \in ConvIds : convs[t].sid = key /\ convs[t].disclosed

(* sessions[sessionId]                                                     *)
SessionsGet(k) == {s \in sessions : s.key = k}

(* sessions[k] = {transport, server}                                       *)
SessionsPut(ss, k, t, srv) ==
    {s \in ss : s.key # k} \cup {[key |-> k, transport |-> t, server |-> srv]}

(* delete sessions[k]                                                      *)
SessionsDelete(ss, k) == {s \in ss : s.key # k}

(* sessionIdGenerator: () => sessionId                                     *)
SessionIdGenerator(t) == convs[t].sid

(* onsessioninitialized of transport t, called with the generated id.      *)
OnSessionInitialized(ss, t, initializedSessionId) ==
    IF initializedSessionId # convs[t].sid
    THEN IF \E s \in ss : s.key = convs[t].sid
         THEN LET existing == CHOOSE s \in ss : s.key = convs[t].sid IN
              SessionsDelete(
                  SessionsPut(ss, initializedSessionId,
                              existing.transport, existing.server),
                  convs[t].sid)
         ELSE ss
    ELSE ss

(* An onclose that leaves the session in the table.                        *)
OnCloseKeeps(ss, t) == ss

(* transport.onclose: delete sessions[transport.sessionId ?? sessionId]    *)
OnClose(ss, t) ==
    SessionsDelete(ss, IF convs[t].tsid # 0 THEN convs[t].tsid
                       ELSE convs[t].sid)

(* sendJsonRpcError(res, status, message, code, id)                        *)
JsonRpcError(status, code) ==
    [status |-> status, structured |-> TRUE, code |-> code,
     dispatched |-> 0, created |-> 0]

(* res.status(400).send("Invalid or missing session ID")                   *)
PlainTextError ==
    [status |-> 400, structured |-> FALSE, code |-> 0,
     dispatched |-> 0, created |-> 0]

(* A response written by transport t itself.                               *)
TransportResponse(t, status) ==
    [status |-> status,
     structured |-> status # 200,
     code |-> IF status # 200 THEN -32000 ELSE 0,
     dispatched |-> t, created |-> 0]

(* An if-chain whose sessions/create branch does not test for an absent    *)
(* session id.                                                             *)
PostBranchCreateAnyKey(key, body) ==
    IF key # 0 /\ {s \in sessions : s.key = key} # {} THEN "known"
    ELSE IF body = "sessions/create" THEN "create"
    ELSE IF key = 0 /\ body = "initialize" THEN "initialize"
    ELSE "reject"

(* The if-chain of app.post("/mcp").                                       *)
PostBranch(key, body) ==
    IF key # 0 /\ SessionsGet(key) # {} THEN "known"
    ELSE IF key = 0 /\ body = "sessions/create" THEN "create"
    ELSE IF key = 0 /\ body = "initialize" THEN "initialize"
    ELSE "reject"

(* The test of handleSessionRequest.                                       *)
SessionBranch(key) ==
    IF key = 0 \/ SessionsGet(key) = {} THEN "reject" ELSE "known"

(* A lookup that ignores the key.                                          *)
TransportForAny(key) == (CHOOSE s \in sessions : TRUE).transport

(* The transport a request with a known key is handed to.                  *)
TransportFor(key) == (CHOOSE s \in SessionsGet(key) : TRUE).transport

(* The transport that server srv is connected to (mcp.connect), if any.    *)
TransportsOf(srv) ==
    {t \in ConvIds : convs[t].server = srv /\ convs[t].connected}

(* createSession, up to await mcp.connect(transport).                      *)
CreateSessionStart(p, body, hdrOk) ==
    /\ created < MaxConvs
    /\ pending[p].pc = "idle"
    /\ LET t == created + 1
           sessionId == RandomUUID(created)
           mcp == CreateMcpServer(created) IN
       /\ convs' = [convs EXCEPT ![t] =
              [sid |-> sessionId, server |-> mcp, state |-> "new",
               tsid |-> 0, connected |-> FALSE, disclosed |-> FALSE,
               out |-> {}]]
       /\ sessions' = SessionsPut(sessions, sessionId, t, mcp)
       /\ pending' = [pending EXCEPT ![p] =
              [pc |-> "connect", body |-> body, conv |-> t, hdrOk |-> hdrOk]]
    /\ created' = created + 1

(* The transport handles an initialize request: it generates its session   *)
(* id and calls onsessioninitialized.                                      *)
InitializeTransport(t) ==
    /\ convs' = [convs EXCEPT ![t].state = "init",
                              ![t].tsid = SessionIdGenerator(t)]
    /\ sessions' = OnSessionInitialized(sessions, t, SessionIdGenerator(t))

(* POST without a session id, method "sessions/create".                    *)
PostSessionsCreate(key, body, hdrOk, p) ==
    /\ Sendable(key)
    /\ PostBranch(key, body) = "create"
    /\ IF hdrOk
       THEN /\ CreateSessionStart(p, body, hdrOk)
            /\ UNCHANGED last
       ELSE /\ last' = JsonRpcError(406, -32000)
            /\ UNCHANGED <<sessions, convs, created, pending>>
    /\ UNCHANGED poolVars
    /\ UNCHANGED ops

(* POST without a session id, an initialize request.                       *)
PostInitialize(key, body, hdrOk, p) ==
    /\ Sendable(key)
    /\ PostBranch(key, body) = "initialize"
    /\ CreateSessionStart(p, body, hdrOk)
    /\ UNCHANGED last
    /\ UNCHANGED poolVars
    /\ UNCHANGED ops

(* POST that matches no branch: 400.                                       *)
PostReject(key, body) ==
    /\ Sendable(key)
    /\ PostBranch(key, body) = "reject"
    /\ last' = JsonRpcError(400, -32000)
    /\ UNCHANGED <<sessions, convs, created, pending>>
    /\ UNCHANGED poolVars
    /\ UNCHANGED ops

(* await mcp.connect(transport) resolves.  A sessions/create request is    *)
(* answered with the new id; an initialize request is handed to the new    *)
(* transport, which may reject it (hdrOk false) or throw, and otherwise    *)
(* answers with the new id in the Mcp-Session-Id header.                   *)
CreateConnectOk(p, throws) ==
    /\ pending[p].pc = "connect"
    /\ LET t == pending[p].conv
           body == pending[p].body IN
       IF body = "sessions/create"
       THEN /\ ~throws
            /\ convs' = [convs EXCEPT ![t].connected = TRUE,
                                      ![t].disclosed = TRUE]
            /\ last' = [NoResponse EXCEPT !.status = 200, !.created = t]
            /\ UNCHANGED sessions
       ELSE IF throws
       THEN /\ convs' = [convs EXCEPT ![t].connected = TRUE]
            /\ last' = [JsonRpcError(500, -32603)
                          EXCEPT !.dispatched = t, !.created = t]
            /\ UNCHANGED sessions
       ELSE IF ~pending[p].hdrOk
       THEN /\ convs' = [convs EXCEPT ![t].connected = TRUE]
            /\ last' = [TransportResponse(t, 406)
                          EXCEPT !.created = t]
            /\ UNCHANGED sessions
       ELSE /\ convs' = [convs EXCEPT ![t].connected = TRUE,
                                      ![t].disclosed = TRUE,
                                      ![t].state = "init",
                                      ![t].tsid = SessionIdGenerator(t)]
            /\ sessions' =
                 OnSessionInitialized(sessions, t, SessionIdGenerator(t))
            /\ last' = [TransportResponse(t, 200)
                          EXCEPT !.created = t]
    /\ pending' = [pending EXCEPT ![p] = IdlePending]
    /\ UNCHANGED created
    /\ UNCHANGED poolVars
    /\ UNCHANGED ops

(* await mcp.connect(transport) rejects: the catch block answers 500.      *)
CreateConnectFail(p) ==
    /\ pending[p].pc = "connect"
    /\ last' = [JsonRpcError(500, -32603)
                  EXCEPT !.created = pending[p].conv]
    /\ pending' = [pending EXCEPT ![p] = IdlePending]
    /\ UNCHANGED <<sessions, convs, created>>
    /\ UNCHANGED poolVars
    /\ UNCHANGED ops

(* POST with a known session id carrying a tool call that the transport    *)
(* accepts: the handler of the transport's server is run.                  *)
PostToolCall(key, body, o, tool, acct) ==
    /\ Sendable(key)
    /\ PostBranch(key, body) = "known"
    /\ body = "tools/call"
    /\ LET t == TransportFor(key) IN
       /\ convs[t].state = "init"
       /\ InvokeTool(o, convs[t].server, t, tool, acct)
       /\ last' = TransportResponse(t, 200)
    /\ UNCHANGED <<now, ticks, reaperDue>>
    /\ UNCHANGED <<sessions, convs, created, pending>>

(* POST with a known session id, any other outcome of                      *)
(* transport.handleRequest.                                                *)
PostKnown(key, body, hdrOk, throws) ==
    /\ Sendable(key)
    /\ PostBranch(key, body) = "known"
    /\ LET t == TransportFor(key) IN
       /\ body = "tools/call" => (throws \/ ~hdrOk \/ convs[t].state # "init")
       /\ IF throws
          THEN /\ last' = [JsonRpcError(500, -32603)
                             EXCEPT !.dispatched = t]
               /\ UNCHANGED <<sessions, convs>>
          ELSE IF ~hdrOk
          THEN /\ last' = TransportResponse(t, 406)
               /\ UNCHANGED <<sessions, convs>>
          ELSE IF convs[t].state = "new" /\ body = "initialize"
          THEN /\ InitializeTransport(t)
               /\ last' = TransportResponse(t, 200)
          ELSE IF convs[t].state = "init" /\ body # "initialize"
          THEN /\ convs' = [convs EXCEPT ![t].out = @ \cup {t}]
               /\ last' = TransportResponse(t, 200)
               /\ UNCHANGED sessions
          ELSE /\ last' = TransportResponse(t, 400)
               /\ UNCHANGED <<sessions, convs>>
    /\ UNCHANGED <<created, pending>>
    /\ UNCHANGED poolVars
    /\ UNCHANGED ops

(* GET via handleSessionRequest.  A failure of transport.handleRequest is  *)
(* not caught: no response is written (status 0).                          *)
GetRequest(key, throws) ==
    /\ Sendable(key)
    /\ IF SessionBranch(key) = "reject"
       THEN /\ ~throws
            /\ last' = PlainTextError
       ELSE LET t == TransportFor(key) IN
            IF throws
            THEN last' = [NoResponse EXCEPT !.dispatched = t]
            ELSE last' = TransportResponse(t, IF convs[t].state = "init" THEN 200 ELSE 400)
    /\ UNCHANGED <<sessions, convs, created, pending>>
    /\ UNCHANGED poolVars
    /\ UNCHANGED ops

(* DELETE via handleSessionRequest: an initialized transport closes, and   *)
(* its onclose removes the session.                                        *)
DeleteRequest(key, throws) ==
    /\ Sendable(key)
    /\ IF SessionBranch(key) = "reject"
       THEN /\ ~throws
            /\ last' = PlainTextError
            /\ UNCHANGED <<sessions, convs>>
       ELSE LET t == TransportFor(key) IN
            IF throws
            THEN /\ last' = [NoResponse EXCEPT !.dispatched = t]
                 /\ UNCHANGED <<sessions, convs>>
            ELSE IF convs[t].state = "init"
            THEN /\ convs' = [convs EXCEPT ![t].state = "closed"]
                 /\ sessions' = OnClose(sessions, t)
                 /\ last' = TransportResponse(t, 200)
            ELSE /\ last' = TransportResponse(t, 400)
                 /\ UNCHANGED <<sessions, convs>>
    /\ UNCHANGED <<created, pending>>
    /\ UNCHANGED poolVars
    /\ UNCHANGED ops

(* The transport of an active conversation reports closure.                *)
TransportCloses(t) ==
    /\ convs[t].state = "init"
    /\ convs' = [convs EXCEPT ![t].state = "closed"]
    /\ sessions' = OnClose(sessions, t)
    /\ UNCHANGED <<created, pending, last>>
    /\ UNCHANGED poolVars
    /\ UNCHANGED ops

(* A delivery that also writes to a closed transport.                      *)
DeliverToConnected(srv) ==
    {t \in ConvIds : convs[t].server = srv /\ convs[t].connected}

(* The transports a result returned on server srv is written to: the one   *)
(* the server is connected to, unless it has closed.                       *)
DeliverTo(srv) == {t \in TransportsOf(srv) : convs[t].state = "init"}

(* A handler returns or throws: its result goes to its own server, which   *)
(* writes it to its transport; the result of a closed conversation is      *)
(* dropped.                                                                *)
Deliver(o) ==
    /\ ops[o].pc \in {"done", "failed"}
    /\ convs' = [t \in ConvIds |->
          IF t \in DeliverTo(ops[o].server)
          THEN [convs[t] EXCEPT !.out = @ \cup {ops[o].via}]
          ELSE convs[t]]
    /\ ops' = [ops EXCEPT ![o] = IdleOp]
    /\ UNCHANGED <<sessions, created, pending, last>>
    /\ UNCHANGED poolVars

----------------------------------------------------------------------------
(* The imap functions: searchMessages, readMessage, readMessages and       *)
(* listAccounts, with the data they pass to and receive from ImapFlow.     *)

UidValues == 1..MaxUid

(* A value that is undefined in JavaScript.                                *)
Undefined == "undefined"

Range(s) == {s[i] : i \in DOMAIN s}

(* The sequences without repetition over the set S, of any length.         *)
Streams(S) ==
    {s \in UNION {[1..n -> S] : n \in 0..Cardinality(S)} :
        \A i \in DOMAIN s, j \in DOMAIN s : s[i] = s[j] => i = j}

(* The lists of uids a caller may pass: any order, duplicates included.    *)
UidLists == UNION {[1..n -> UidValues] : n \in 0..MaxList}

(* limit?: absent (written 0 here), or a positive integer as the input     *)
(* schema of search_messages requires.                                     *)
NoLimit == 0
Limits == {NoLimit} \cup (1..MaxLimit)

(* What c.search resolves to: an array of uids in the order of the         *)
(* server's reply, a single number, false, or a value of another type.     *)
SearchRaw(kind, list) == [kind |-> kind, list |-> list]
SearchResults ==
    {SearchRaw("array", l) : l \in Streams(UidValues)}
        \cup {SearchRaw("number", <<n>>) : n \in UidValues}
        \cup {SearchRaw("false", <<>>), SearchRaw("other", <<>>)}

(* The normalisation of the search result in searchMessages.               *)
NormalizeSearch(raw) ==
    IF raw.kind = "false" THEN <<>>
    ELSE IF raw.kind = "array" THEN raw.list
    ELSE IF raw.kind = "number" THEN raw.list
    ELSE <<>>

RECURSIVE InsertAsc(_, _)
InsertAsc(n, s) ==
    IF s = <<>> THEN <<n>>
    ELSE IF n < Head(s) THEN <<n>> \o s
    ELSE <<Head(s)>> \o InsertAsc(n, Tail(s))

(* numbers.sort((a, b) => a - b)                                           *)
RECURSIVE SortAsc(_)
SortAsc(s) == IF s = <<>> THEN <<>> ELSE InsertAsc(Head(s), SortAsc(Tail(s)))

(* A truncation that is applied after sorting the uids.                    *)
TruncateSorted(uidArray, limit) ==
    IF limit = NoLimit THEN uidArray
    ELSE IF limit # 0 /\ Len(uidArray) > limit
         THEN SubSeq(SortAsc(uidArray), 1, limit)
         ELSE uidArray

(* if (limit && uidArray.length > limit) uidArray = uidArray.slice(0, limit) *)
Truncate(uidArray, limit) ==
    IF limit = NoLimit THEN uidArray
    ELSE IF limit # 0 /\ Len(uidArray) > limit
         THEN SubSeq(uidArray, 1, limit)
         ELSE uidArray

(* [...new Set(uids)]: the first occurrence of every value, in order.      *)
RECURSIVE Dedup(_)
Dedup(s) ==
    IF s = <<>> THEN <<>>
    ELSE LET rest == Dedup(SubSeq(s, 1, Len(s) - 1)) IN
         IF s[Len(s)] \in Range(rest) THEN rest ELSE Append(rest, s[Len(s)])

(* A readMessages that fetches the uids as given.                          *)
UniqueUidsAsGiven(uids) == uids

(* const uniqueUids = [...new Set(uids)].sort((a, b) => a - b)             *)
UniqueUids(uids) == SortAsc(Dedup(uids))

(* A FetchMessageObject without a uid.                                     *)
NoUid == -1

(* A record of the fetch stream: ImapFlow's FetchMessageObject.            *)
FetchMessageObject(u) == [uid |-> u]

(* toListItem: uid: msg.uid ?? 0                                           *)
ToListItem(msg) ==
    [uid |-> IF msg.uid = NoUid THEN 0 ELSE msg.uid, shape |-> "listItem"]

(* toFullMessage: uid: msg.uid ?? 0                                        *)
ToFullMessage(msg) ==
    [uid |-> IF msg.uid = NoUid THEN 0 ELSE msg.uid, shape |-> "full"]

(* A sort that leaves the rows in the order of the stream.                 *)
SortByUidNone(rows) == rows

RECURSIVE InsertByUid(_, _)
InsertByUid(r, s) ==
    IF s = <<>> THEN <<r>>
    ELSE IF r.uid < Head(s).uid THEN <<r>> \o s
    ELSE <<Head(s)>> \o InsertByUid(r, Tail(s))

RECURSIVE SortRows(_)
SortRows(rows) ==
    IF rows = <<>> THEN <<>>
    ELSE InsertByUid(rows[Len(rows)], SortRows(SubSeq(rows, 1, Len(rows) - 1)))

(* rows.sort((a, b) => a.uid - b.uid)                                      *)
SortByUid(rows) == SortRows(rows)

(* The records a fetch of the set uidArg of uids yields: one per message   *)
(* that still exists under a requested uid, in the order the server sends  *)
(* them.                                                                   *)
FetchStreams(uidArg) ==
    {[i \in DOMAIN s |-> FetchMessageObject(s[i])] : s \in Streams(uidArg)}

(* The accounts listAccounts may be given.                                 *)
AccountRecords ==
    {[name |-> n, description |-> d,
      imap |-> [auth |-> [user |-> u, pass |-> p]]] :
        n \in Accounts, d \in {Undefined, "work"},
        u \in {"u1", "u2"}, p \in {"pw1", "pw2"}}

AccountLists == UNION {[1..n -> AccountRecords] : n \in 0..MaxAccounts}

(* A listAccounts that returns the accounts themselves.                    *)
ListAccountsRaw(accounts) == accounts

(* accounts.map((a) => ({name, description, imapUsername}))                *)
ListAccounts(accounts) ==
    [i \in DOMAIN accounts |->
        [name |-> accounts[i].name,
         description |-> accounts[i].description,
         imapUsername |-> accounts[i].imap.auth.user]]

(* A node of msg.bodyStructure.                                            *)
Part(type, disposition, childNodes) ==
    [type |-> type, disposition |-> disposition, childNodes |-> childNodes]

(* The disposition types a part may carry; Undefined is a part without a   *)
(* disposition.                                                            *)
Dispositions == {Undefined, "attachment", "ATTACHMENT", "inline"}

(* The body structures of a fetched message: a root part with up to        *)
(* MaxChildren parts below it, each with at most one part of its own.      *)
ChildParts(i) ==
    {Part(<<"child", i>>, d, k) :
        d \in Dispositions,
        k \in {<<>>} \cup {<<Part(<<"grandchild", i>>, g, <<>>)>> :
                                g \in Dispositions}}

ChildNodeLists ==
    UNION {{k \in [1..n -> UNION {ChildParts(i) : i \in 1..n}] :
               \A i \in 1..n : k[i] \in ChildParts(i)} : n \in 0..MaxChildren}

BodyStructures == {Part(<<"root", 0>>, d, k) : d \in Dispositions, k \in ChildNodeLists}

(* String.prototype.toLowerCase on the disposition types above.            *)
ToLowerCase(str) == IF str = "ATTACHMENT" THEN "attachment" ELSE str

(* The filter of toFullMessage: a disposition whose type, in lower case,   *)
(* is "attachment".                                                        *)
IsAttachment(p) ==
    /\ p.disposition # Undefined
    /\ ToLowerCase(p.disposition) = "attachment"

(* The item toFullMessage makes of an attachment part.                     *)
AttachmentItem(p) == [contentType |-> p.type]

(* array.filter(test).map(item)                                            *)
RECURSIVE FilterMap(_)
FilterMap(parts) ==
    IF parts = <<>> THEN <<>>
    ELSE (IF IsAttachment(Head(parts)) THEN <<AttachmentItem(Head(parts))>>
          ELSE <<>>) \o FilterMap(Tail(parts))

(* The attachments of toFullMessage: the parts among                       *)
(* msg.bodyStructure.childNodes that pass the filter.                      *)
Attachments(bodyStructure) == FilterMap(bodyStructure.childNodes)

NoBodyStructure == Part(<<"none", 0>>, Undefined, <<>>)

NoCall == [fn |-> "none", acct |-> "", uids |-> <<>>, limit |-> NoLimit,
           bodyStructure |-> NoBodyStructure,
           accounts |-> <<>>, searched |-> SearchRaw("none", <<>>),
           fetches |-> <<>>, stream |-> <<>>, result |-> <<>>,
           absent |-> FALSE, returned |-> FALSE, trace |-> <<>>,
           poolBefore |-> {}]

(* The calls made on entry, from getClient to the first suspension: on a   *)
(* cached client mailboxOpen is issued at once.                            *)
EntryTrace(pc) ==
    IF pc = "mailboxOpen" THEN <<"getClient", "mailboxOpen">>
    ELSE <<"getClient">>

(* searchMessages(account, searchQuery, limit) is called.                  *)
CallSearchMessages(acct, limit) ==
    /\ call.fn = "none"
    /\ ops[1].pc = "idle"
    /\ GetClientStart(1, PlaceholderServer, 0, "search_messages", acct)
    /\ call' = [NoCall EXCEPT !.fn = "searchMessages", !.acct = acct,
                              !.limit = limit, !.poolBefore = pool,
                              !.trace = EntryTrace(ops'[1].pc)]
    /\ UNCHANGED <<now, ticks, reaperDue, cfg>>
    /\ UNCHANGED routerVars

(* readMessage(account, uid) is called.                                    *)
CallReadMessage(acct, uid) ==
    /\ call.fn = "none"
    /\ ops[1].pc = "idle"
    /\ GetClientStart(1, PlaceholderServer, 0, "read_message", acct)
    /\ call' = [NoCall EXCEPT !.fn = "readMessage", !.acct = acct,
                              !.uids = <<uid>>, !.poolBefore = pool,
                              !.trace = EntryTrace(ops'[1].pc)]
    /\ UNCHANGED <<now, ticks, reaperDue, cfg>>
    /\ UNCHANGED routerVars

(* A readMessages without the early return on an empty list.               *)
ReadMessagesReturnsEarlyNever(uids) == FALSE

(* if (uniqueUids.length === 0) return []                                  *)
ReadMessagesReturnsEarly(uids) == UniqueUids(uids) = <<>>

(* readMessages(account, uids) is called.                                  *)
CallReadMessages(acct, uids) ==
    /\ call.fn = "none"
    /\ ops[1].pc = "idle"
    /\ IF ReadMessagesReturnsEarly(uids)
       THEN /\ call' = [NoCall EXCEPT !.fn = "readMessages", !.acct = acct,
                                     !.uids = uids, !.poolBefore = pool,
                                     !.returned = TRUE]
            /\ UNCHANGED <<pool, clients, nextClient, ops>>
       ELSE /\ GetClientStart(1, PlaceholderServer, 0, "read_messages", acct)
            /\ call' = [NoCall EXCEPT !.fn = "readMessages", !.acct = acct,
                                     !.uids = uids, !.poolBefore = pool,
                                     !.trace = EntryTrace(ops'[1].pc)]
    /\ UNCHANGED <<now, ticks, reaperDue, cfg>>
    /\ UNCHANGED routerVars

(* listAccounts(accounts): no suspension, no remote call.                  *)
CallListAccounts(accounts) ==
    /\ call.fn = "none"
    /\ ops[1].pc = "idle"
    /\ call' = [NoCall EXCEPT !.fn = "listAccounts", !.accounts = accounts,
                              !.result = ListAccounts(accounts),
                              !.poolBefore = pool, !.returned = TRUE]
    /\ UNCHANGED <<poolVars, ops, cfg>>
    /\ UNCHANGED routerVars

(* toFullMessage(msg) is applied to a fetched message with the given body  *)
(* structure.                                                              *)
CallToFullMessage(bodyStructure) ==
    /\ call.fn = "none"
    /\ ops[1].pc = "idle"
    /\ call' = [NoCall EXCEPT !.fn = "toFullMessage",
                              !.bodyStructure = bodyStructure,
                              !.result = Attachments(bodyStructure),
                              !.poolBefore = pool, !.returned = TRUE]
    /\ UNCHANGED <<poolVars, ops, cfg>>
    /\ UNCHANGED routerVars

(* getClient's connect resolves and the function issues mailboxOpen.       *)
FnConnectOk ==
    /\ call.fn # "none"
    /\ ConnectOk(1)
    /\ call' = [call EXCEPT !.trace = Append(@, "mailboxOpen")]
    /\ UNCHANGED cfg

(* getClient's connect rejects: the function throws.                       *)
FnConnectFail ==
    /\ call.fn # "none"
    /\ ConnectFail(1)
    /\ UNCHANGED fnVars

(* The uid argument of the fetch a read function issues.                   *)
ReadFetchArg ==
    IF call.fn = "readMessage" THEN call.uids ELSE UniqueUids(call.uids)

(* mailboxOpen resolves: searchMessages issues the search, the read        *)
(* functions issue their fetch.                                            *)
FnMailboxOpen ==
    /\ call.fn # "none"
    /\ ops[1].pc = "mailboxOpen"
    /\ RemoteOk(1, FALSE)
    /\ call' = IF call.fn = "searchMessages"
               THEN [call EXCEPT !.trace = Append(@, "search")]
               ELSE [call EXCEPT !.trace = Append(@, "fetch"),
                                 !.fetches = Append(@, ReadFetchArg)]
    /\ UNCHANGED cfg

(* c.search resolves to raw: an empty result returns [] with no fetch,     *)
(* otherwise the truncated uid array is fetched.                           *)
FnSearch(raw) ==
    /\ call.fn = "searchMessages"
    /\ ops[1].pc = "search"
    /\ LET uidArray == NormalizeSearch(raw) IN
       /\ RemoteOk(1, uidArray = <<>>)
       /\ call' = IF uidArray = <<>>
                  THEN [call EXCEPT !.searched = raw, !.returned = TRUE]
                  ELSE [call EXCEPT !.searched = raw,
                          !.trace = Append(@, "fetch"),
                          !.fetches = Append(@, Truncate(uidArray, call.limit))]
    /\ UNCHANGED cfg

(* A readMessage that never reports an absent message.                     *)
ReadMessageAbsentNever(stream) == FALSE

(* const first = await iter.next(); if (first.done) return null            *)
ReadMessageAbsent(stream) == stream = <<>>

(* The result of a function whose fetch has yielded the records of stream. *)
FetchResult(fn, stream) ==
    IF fn = "searchMessages"
    THEN SortByUid([i \in DOMAIN stream |-> ToListItem(stream[i])])
    ELSE IF fn = "readMessages"
    THEN SortByUid([i \in DOMAIN stream |-> ToFullMessage(stream[i])])
    ELSE IF stream = <<>> THEN <<>>
    ELSE <<ToFullMessage(stream[1])>>

(* The fetch stream ends after yielding the records of stream: the         *)
(* function returns (readMessage returns null on an empty stream, and its  *)
(* handler then throws "Message not found").                               *)
FnFetch(stream) ==
    /\ call.fn # "none"
    /\ ops[1].pc = "fetch"
    /\ stream \in FetchStreams(Range(call.fetches[Len(call.fetches)]))
    /\ RemoteOk(1, stream = <<>>)
    /\ call' = [call EXCEPT !.stream = stream,
                            !.result = FetchResult(call.fn, stream),
                            !.absent = (call.fn = "readMessage"
                                           /\ ReadMessageAbsent(stream)),
                            !.returned = TRUE]
    /\ UNCHANGED cfg

(* mailboxOpen, search or fetch rejects: the function throws.              *)
FnRemoteFail ==
    /\ call.fn # "none"
    /\ RemoteFail(1)
    /\ UNCHANGED fnVars

(* The caller has the result or the error; the next call may start.        *)
FnReturn ==
    /\ call.fn # "none"
    /\ call.returned \/ ops[1].pc = "failed"
    /\ call' = NoCall
    /\ ops' = [ops EXCEPT ![1] = IdleOp]
    /\ UNCHANGED <<poolVars, cfg>>
    /\ UNCHANGED routerVars

----------------------------------------------------------------------------
(* loadConfig.                                                             *)

(* The file at configPath: whether readFile can read it, whether its       *)
(* contents are JSON, and what the JSON holds.                             *)
RawConfigs ==
    [accounts : {"missing", "empty", "duplicate", "ok"},
     server : {"missing", "ok", "badPort"},
     extraKey : BOOLEAN]

ConfigFiles == [readable : BOOLEAN, json : BOOLEAN, raw : RawConfigs]

(* ConfigSchema accepts raw: a non-empty accounts array without duplicate  *)
(* names, an optional server with a port in range, and no unknown key.     *)
SchemaAccepts(raw) ==
    /\ raw.accounts = "ok"
    /\ raw.server \in {"missing", "ok"}
    /\ ~raw.extraKey

(* The value ConfigSchema.parse returns: the server defaults to port 3333. *)
ParsedConfig(raw) ==
    [accounts |-> raw.accounts,
     server |-> IF raw.server = "missing" THEN "default" ELSE raw.server]

NoConfig == [accounts |-> "none", server |-> "none"]

ConfigError(stage) == [kind |-> "ConfigError", stage |-> stage, config |-> NoConfig]

(* A loadConfig that lets the error of readFile through.                   *)
ReadErrorRaw == [kind |-> "Error", stage |-> "read", config |-> NoConfig]

(* catch (error) around readFile: throw new ConfigError(...)               *)
ReadError == ConfigError("read")

(* loadConfig(configPath); unexpected says that ConfigSchema.parse throws  *)
(* something that is not a ZodError.                                       *)
LoadConfigOutcome(file, unexpected) ==
    IF ~file.readable THEN ReadError
    ELSE IF ~file.json THEN ConfigError("json")
    ELSE IF unexpected THEN ConfigError("unexpected")
    ELSE IF SchemaAccepts(file.raw)
         THEN [kind |-> "Config", stage |-> "done",
               config |-> ParsedConfig(file.raw)]
         ELSE ConfigError("validation")

NoCfg == [pc |-> "idle", file |-> [readable |-> FALSE, json |-> FALSE,
                                  raw |-> [accounts |-> "missing",
                                           server |-> "missing",
                                           extraKey |-> FALSE]],
          outcome |-> [kind |-> "none", stage |-> "none", config |-> NoConfig]]

(* The process loads its configuration at startup.                         *)
LoadConfig(file, unexpected) ==
    /\ cfg.pc = "idle"
    /\ cfg' = [pc |-> "done", file |-> file,
               outcome |-> LoadConfigOutcome(file, unexpected)]
    /\ UNCHANGED <<poolVars, ops, call>>
    /\ UNCHANGED routerVars

(* The configuration is loaded: the imap functions can be called.          *)
Started == cfg.outcome.kind = "Config"

----------------------------------------------------------------------------
Init ==
    /\ now = 0
    /\ ticks = 0
    /\ reaperDue = FALSE
    /\ pool = {}
    /\ clients = [c \in ClientIds |-> NoClient]
    /\ nextClient = 0
    /\ ops = [o \in OpIds |-> IdleOp]
    /\ sessions = {}
    /\ convs = [t \in ConvIds |-> NoConv]
    /\ created = 0
    /\ pending = [p \in PendingIds |-> IdlePending]
    /\ last = NoResponse
    /\ call = NoCall
    /\ cfg = NoCfg

(* A handler of the exported McpServer is called outside any conversation. *)
DirectCall(o, tool, acct) ==
    /\ InvokeTool(o, PlaceholderServer, 0, tool, acct)
    /\ UNCHANGED <<now, ticks, reaperDue>>
    /\ UNCHANGED routerVars

(* The pool, the reaper and the handlers, called on the exported server.  *)
Next ==
    \/ \E o \in OpIds, tool \in ToolNames, acct \in AccountNames :
          DirectCall(o, tool, acct) /\ UNCHANGED fnVars
    \/ \E o \in OpIds : ConnectOk(o) /\ UNCHANGED fnVars
    \/ \E o \in OpIds : ConnectFail(o) /\ UNCHANGED fnVars
    \/ \E o \in OpIds, empty \in BOOLEAN : RemoteOk(o, empty) /\ UNCHANGED fnVars
    \/ \E o \in OpIds : RemoteFail(o) /\ UNCHANGED fnVars
    \/ \E o \in OpIds : Deliver(o) /\ UNCHANGED fnVars
    \/ \E c \in ClientIds : ClientDrop(c) /\ UNCHANGED fnVars
    \/ \E d \in TimeSteps : Tick(d) /\ UNCHANGED fnVars
    \/ \E thrown \in SUBSET pool : Reaper(thrown) /\ UNCHANGED fnVars

Spec == Init /\ [][Next]_vars

(* The steps that are a POST, a GET and a DELETE request with a given      *)
(* session id header and body.                                             *)
PostStep(key, body) ==
    /\ Sendable(key)
    /\ CASE PostBranch(key, body) = "reject" -> PostReject(key, body)
         [] PostBranch(key, body) = "create" ->
              \E hdrOk \in BOOLEAN, p \in PendingIds :
                 PostSessionsCreate(key, body, hdrOk, p)
         [] PostBranch(key, body) = "initialize" ->
              \E hdrOk \in BOOLEAN, p \in PendingIds :
                 PostInitialize(key, body, hdrOk, p)
         [] OTHER ->
              \/ \E hdrOk \in BOOLEAN, throws \in BOOLEAN :
                    PostKnown(key, body, hdrOk, throws)
              \/ \E o \in RouterOpIds, tool \in ToolNames,
                      acct \in RouterAccountNames :
                    PostToolCall(key, body, o, tool, acct)

GetStep(key) == \E throws \in BOOLEAN : GetRequest(key, throws)

DeleteStep(key) == \E throws \in BOOLEAN : DeleteRequest(key, throws)

(* The router, its conversations and their handlers, with the clock        *)
(* stopped.                                                                *)
NextRouter ==
    \/ \E o \in RouterOpIds : ConnectOk(o) /\ UNCHANGED fnVars
    \/ \E o \in RouterOpIds : ConnectFail(o) /\ UNCHANGED fnVars
    \/ \E o \in RouterOpIds, empty \in BOOLEAN : RemoteOk(o, empty) /\ UNCHANGED fnVars
    \/ \E o \in RouterOpIds : RemoteFail(o) /\ UNCHANGED fnVars
    \/ \E o \in RouterOpIds : Deliver(o) /\ UNCHANGED fnVars
    \/ \E key \in Keys, body \in Bodies, hdrOk \in BOOLEAN, p \in PendingIds :
          PostSessionsCreate(key, body, hdrOk, p) /\ UNCHANGED fnVars
    \/ \E key \in Keys, body \in Bodies, hdrOk \in BOOLEAN, p \in PendingIds :
          PostInitialize(key, body, hdrOk, p) /\ UNCHANGED fnVars
    \/ \E key \in Keys, body \in Bodies : PostReject(key, body) /\ UNCHANGED fnVars
    \/ \E p \in PendingIds, throws \in BOOLEAN : CreateConnectOk(p, throws) /\ UNCHANGED fnVars
    \/ \E p \in PendingIds : CreateConnectFail(p) /\ UNCHANGED fnVars
    \/ \E key \in Keys, body \in Bodies, o \in RouterOpIds, tool \in ToolNames,
             acct \in RouterAccountNames :
          PostToolCall(key, body, o, tool, acct) /\ UNCHANGED fnVars
    \/ \E key \in Keys, body \in Bodies, hdrOk \in BOOLEAN, throws \in BOOLEAN :
          PostKnown(key, body, hdrOk, throws) /\ UNCHANGED fnVars
    \/ \E key \in Keys, throws \in BOOLEAN : GetRequest(key, throws) /\ UNCHANGED fnVars
    \/ \E key \in Keys, throws \in BOOLEAN : DeleteRequest(key, throws) /\ UNCHANGED fnVars
    \/ \E t \in ConvIds : TransportCloses(t) /\ UNCHANGED fnVars

SpecRouter == Init /\ [][NextRouter]_vars

(* The imap functions called one at a time on a started process, with the  *)
(* pool they acquire their sessions from.                                  *)
NextFn ==
    \/ \E file \in ConfigFiles, unexpected \in BOOLEAN :
          LoadConfig(file, unexpected)
    \/ \E acct \in Accounts, limit \in Limits :
          Started /\ CallSearchMessages(acct, limit)
    \/ \E acct \in Accounts, uid \in UidValues :
          Started /\ CallReadMessage(acct, uid)
    \/ \E acct \in Accounts, uids \in UidLists :
          Started /\ CallReadMessages(acct, uids)
    \/ \E accounts \in AccountLists : Started /\ CallListAccounts(accounts)
    \/ \E bodyStructure \in BodyStructures :
          Started /\ CallToFullMessage(bodyStructure)
    \/ FnConnectOk
    \/ FnConnectFail
    \/ FnMailboxOpen
    \/ \E raw \in SearchResults : FnSearch(raw)
    \/ \E stream \in FetchStreams(UidValues) : FnFetch(stream)
    \/ FnRemoteFail
    \/ FnReturn

SpecFn == Init /\ [][NextFn]_vars

(* Conversations that are initialized, call tools and terminate, with the  *)
(* clock running and the reaper at work.                                   *)
NextFrame ==
    \/ \E o \in RouterOpIds : ConnectOk(o) /\ UNCHANGED fnVars
    \/ \E o \in RouterOpIds : ConnectFail(o) /\ UNCHANGED fnVars
    \/ \E o \in RouterOpIds, empty \in BOOLEAN : RemoteOk(o, empty) /\ UNCHANGED fnVars
    \/ \E o \in RouterOpIds : RemoteFail(o) /\ UNCHANGED fnVars
    \/ \E o \in RouterOpIds : Deliver(o) /\ UNCHANGED fnVars
    \/ \E p \in PendingIds :
          PostInitialize(0, "initialize", TRUE, p) /\ UNCHANGED fnVars
    \/ \E p \in PendingIds : CreateConnectOk(p, FALSE) /\ UNCHANGED fnVars
    \/ \E p \in PendingIds : CreateConnectFail(p) /\ UNCHANGED fnVars
    \/ \E key \in Keys, o \in RouterOpIds, tool \in ToolNames,
             acct \in RouterAccountNames :
          PostToolCall(key, "tools/call", o, tool, acct) /\ UNCHANGED fnVars
    \/ \E key \in Keys : DeleteRequest(key, FALSE) /\ UNCHANGED fnVars
    \/ \E t \in ConvIds : TransportCloses(t) /\ UNCHANGED fnVars
    \/ \E c \in ClientIds : ClientDrop(c) /\ UNCHANGED fnVars
    \/ \E d \in TimeSteps : Tick(d) /\ UNCHANGED fnVars
    \/ \E thrown \in SUBSET pool : Reaper(thrown) /\ UNCHANGED fnVars

SpecFrame == Init /\ [][NextFrame]_vars

----------------------------------------------------------------------------
(* The connection pool.                                                    *)

(* A step in which handler invocation o starts: it calls getClient unless  *)
(* the account is unknown.                                                 *)
Starts(o) == ops[o].pc = "idle" /\ ops'[o].pc # "idle"

(* The operations that hold a session obtained from getClient.             *)
InFlight(o) == ops[o].pc \in {"mailboxOpen", "search", "fetch"}

(* C1: an acquire that finds a pool entry whose session is usable returns  *)
(* that session, sets the entry's lastUsed to the current time, constructs *)
(* no session, issues no connect and keeps the keys of the pool.           *)
C1_CachedAcquireReuses ==
    [][\A o \in OpIds :
         (Starts(o) /\ ops'[o].acct \in Accounts
            /\ \E e \in pool : e.key = ops'[o].acct
                               /\ clients[e.client].state = "usable")
         => LET e == CHOOSE x \in pool : x.key = ops'[o].acct IN
            /\ ops'[o].client = e.client
            /\ ops'[o].pc = "mailboxOpen"
            /\ pool' = (pool \ {e}) \cup
                  {[key |-> e.key, client |-> e.client, lastUsed |-> now]}
            /\ {x.key : x \in pool'} = {x.key : x \in pool}
            /\ nextClient' = nextClient
            /\ clients' = clients]_vars

(* Two operations hold the same session, last used later than it was       *)
(* connected: the second one got it from the pool.                         *)
C1_Witness ==
    \E o1 \in OpIds, o2 \in OpIds :
       /\ o1 # o2
       /\ InFlight(o1) /\ InFlight(o2)
       /\ ops[o1].client = ops[o2].client
       /\ \E e \in pool : e.client = ops[o1].client /\ e.lastUsed > 0

(* C2 as stated: per account at most one pool entry and at most one        *)
(* session that is live and usable.                                        *)
C2_AtMostOneLiveSession ==
    \A a \in Accounts :
       /\ Cardinality({e \in pool : e.key = a}) <= 1
       /\ Cardinality({c \in ClientIds : clients[c].acct = a
                          /\ clients[c].state = "usable"}) <= 1

(* C2 amended: per account at most one pool entry, so at most one of the   *)
(* account's live usable sessions is held by the pool.                     *)
C2_AtMostOneEntry ==
    \A a \in Accounts :
       /\ Cardinality({e \in pool : e.key = a}) <= 1
       /\ Cardinality({c \in ClientIds : clients[c].acct = a
                          /\ clients[c].state = "usable"
                          /\ \E e \in pool : e.client = c}) <= 1

(* Two sessions of one account are live and usable, one of them pooled.    *)
C2_Witness ==
    \E c1 \in ClientIds, c2 \in ClientIds :
       /\ c1 # c2
       /\ clients[c1].acct = clients[c2].acct
       /\ clients[c1].state = "usable" /\ clients[c2].state = "usable"
       /\ \E e \in pool : e.client = c2
       /\ \A e \in pool : e.client # c1

(* C3: a connect that fails makes its acquire fail with that error, starts *)
(* no other connect and leaves the pool as it was; no entry ever holds a   *)
(* session whose connect failed, and an acquire that finds no usable entry *)
(* connects a new session.                                                 *)
C3_ConnectFailureNotCached ==
    /\ [][\A o \in OpIds :
           (ops[o].pc = "connecting" /\ ops'[o].pc # "connecting"
              /\ clients'[ops[o].client].state = "failed")
           => /\ ops'[o].pc = "failed"
              /\ ops'[o].err = "connect"
              /\ pool' = pool
              /\ nextClient' = nextClient
              /\ \A c \in ClientIds :
                    c # ops[o].client => clients'[c] = clients[c]]_vars
    /\ [][\A o \in OpIds :
           (Starts(o) /\ ops'[o].acct \in Accounts
              /\ ~ \E e \in pool : e.key = ops'[o].acct
                                   /\ clients[e.client].state = "usable")
           => /\ nextClient' = nextClient + 1
              /\ ops'[o].client = nextClient'
              /\ ops'[o].pc = "connecting"
              /\ clients'[nextClient'].state = "connecting"]_vars
    /\ [](\A e \in pool : clients[e.client].state # "failed")

(* An acquire has failed in connect, the pool holds nothing for its        *)
(* account, and another acquire for the account is connecting anew.        *)
C3_Witness ==
    \E o1 \in OpIds, o2 \in OpIds :
       /\ ops[o1].pc = "failed" /\ ops[o1].err = "connect"
       /\ clients[ops[o1].client].state = "failed"
       /\ \A e \in pool : e.key # ops[o1].acct
       /\ ops[o2].pc = "connecting" /\ ops[o2].acct = ops[o1].acct
       /\ ops[o2].client > ops[o1].client

(* C4: a reaper pass at time now removes every entry idle for more than 5  *)
(* minutes and calls close on its session, and keeps every other entry     *)
(* with its session and lastUsed, not closed.                              *)
C4_ReaperEvictsExactlyIdle ==
    [][(reaperDue /\ ~reaperDue')
         => /\ \A e \in pool :
                 IF now - e.lastUsed > 5 * 60000
                 THEN /\ \A x \in pool' : x.key # e.key /\ x.client # e.client
                      /\ clients'[e.client].closeCalled
                 ELSE /\ e \in pool'
                      /\ clients'[e.client] = clients[e.client]
                      /\ ~clients'[e.client].closeCalled
                      /\ clients'[e.client].state # "closed"
            /\ pool' \subseteq pool]_vars

(* After a pass one session has been closed and evicted while the entry of *)
(* another account, idle for exactly the threshold, is still pooled.       *)
C4_Witness ==
    /\ ~reaperDue
    /\ \E c \in ClientIds :
          /\ clients[c].closeCalled
          /\ \A e \in pool : e.client # c /\ e.key # clients[c].acct
    /\ \E e \in pool : now - e.lastUsed = 5 * 60000
                       /\ ~clients[e.client].closeCalled

(* C5: search_messages and read_message called with an account name that  *)
(* is not configured fail with the unknown-account error without calling   *)
(* getClient: no session is constructed, no connect is issued and the pool *)
(* is unchanged.                                                           *)
C5_UnknownAccountFailsFast ==
    [][\A o \in OpIds :
         (Starts(o) /\ ops'[o].acct \notin Accounts)
         => /\ ops'[o].pc = "failed"
            /\ ops'[o].err = "unknown"
            /\ ops'[o].client = 0
            /\ ops'[o].tool \in ToolNames
            /\ pool' = pool
            /\ clients' = clients
            /\ nextClient' = nextClient]_vars

(* Both handlers have failed on an unknown account while the pool holds a  *)
(* session.                                                                *)
C5_Witness ==
    /\ \E o \in OpIds : ops[o].err = "unknown" /\ ops[o].tool = "search_messages"
    /\ \E o \in OpIds : ops[o].err = "unknown" /\ ops[o].tool = "read_message"
    /\ pool # {}

----------------------------------------------------------------------------
(* The session router.                                                     *)

(* The session id header names an entry of the session table.              *)
Known(key) == key # 0 /\ \E s \in sessions : s.key = key

(* A step that is a request with the given header, of any method.          *)
RequestStep(key) ==
    \/ \E body \in Bodies : PostStep(key, body)
    \/ GetStep(key)
    \/ DeleteStep(key)

C7_InitializeCreatesConversation ==
    /\ [][PostStep(0, "initialize")
            => /\ created' = created + 1
               /\ \E s \in sessions' :
                    /\ s \notin sessions
                    /\ sessions' = sessions \cup {s}
                    /\ \A x \in sessions : /\ x.key # s.key
                                           /\ x.transport # s.transport
                                           /\ x.server # s.server
                    /\ s.server # 0
                    /\ convs[s.transport].state = "none"
                    /\ convs'[s.transport].state = "new"
                    /\ convs'[s.transport].sid = s.key
                    /\ convs'[s.transport].server = s.server
                    /\ \A t \in ConvIds \ {s.transport} :
                          /\ convs'[t] = convs[t]
                          /\ convs[t].sid # s.key
                          /\ convs[t].server # s.server
                    /\ \E p \in PendingIds :
                          /\ pending[p].pc = "idle"
                          /\ pending'[p].pc = "connect"
                          /\ pending'[p].body = "initialize"
                          /\ pending'[p].conv = s.transport]_vars
    /\ [][\A p \in PendingIds :
            (/\ pending[p].pc = "connect"
             /\ pending[p].body = "initialize"
             /\ pending'[p].pc = "idle"
             /\ convs'[pending[p].conv].connected)
            => /\ last'.dispatched = pending[p].conv
               /\ last'.created = pending[p].conv
               /\ \E s \in sessions' :
                     /\ s.transport = pending[p].conv
                     /\ s.key = convs[pending[p].conv].sid]_vars

(* An initialize request has created a second conversation and has been    *)
(* handled by its transport, which is now initialized.                     *)
C7_Witness ==
    /\ last.status = 200
    /\ last.created # 0
    /\ last.dispatched = last.created
    /\ convs[last.created].state = "init"
    /\ \E s \in sessions : s.transport = last.created
    /\ Cardinality(sessions) = 2

(* C8: no two entries of the session table share a key, a transport or a   *)
(* server; each entry holds the transport and server created under its     *)
(* key; a request with a known key is handed to that transport; a handler  *)
(* runs on the server of the transport its request came through, and a     *)
(* transport only ever writes responses to its own requests.               *)
C8_ConversationsIsolated ==
    /\ [](\A s1 \in sessions, s2 \in sessions :
             s1 # s2 => /\ s1.key # s2.key
                        /\ s1.transport # s2.transport
                        /\ s1.server # s2.server)
    /\ [](\A s \in sessions : /\ convs[s.transport].sid = s.key
                              /\ convs[s.transport].server = s.server)
    /\ [](\A t \in ConvIds : convs[t].out \subseteq {t})
    /\ [](\A o \in OpIds :
             ops[o].pc # "idle"
             => /\ ops[o].via # 0
                /\ ops[o].server = convs[ops[o].via].server)
    /\ [][\A key \in Keys :
            (Known(key) /\ RequestStep(key))
            => /\ last'.dispatched # 0
               /\ convs[last'.dispatched].sid = key]_vars

(* Two conversations are active, each has written a response, and the      *)
(* last request went to the second one.                                    *)
C8_Witness ==
    /\ Cardinality(sessions) = 2
    /\ \A s \in sessions : /\ convs[s.transport].state = "init"
                           /\ convs[s.transport].out = {s.transport}
    /\ last.dispatched = 2

(* C9: a closed conversation has no entry in the session table, stays      *)
(* closed, and every later request with its id is rejected with 400 and    *)
(* dispatched to no conversation.                                          *)
C9_ClosedForGood ==
    /\ [](\A t \in ConvIds :
             convs[t].state = "closed"
             => \A s \in sessions : s.transport # t /\ s.key # convs[t].sid)
    /\ [][\A t \in ConvIds :
            convs[t].state = "closed" => convs'[t].state = "closed"]_vars
    /\ [][\A t \in ConvIds :
            (convs[t].state = "closed" /\ RequestStep(convs[t].sid))
            => /\ last'.status = 400
               /\ last'.dispatched = 0
               /\ UNCHANGED <<sessions, convs, created, pending, ops>>]_vars

(* A conversation is closed, the other is active, and a request has been   *)
(* rejected.                                                               *)
C9_Witness ==
    /\ \E t \in ConvIds : convs[t].state = "closed"
    /\ \E s \in sessions : convs[s.transport].state = "init"
    /\ last.status = 400
    /\ last.dispatched = 0

(* The steps of handler invocation o.                                      *)
OpStep(o) ==
    \/ ConnectOk(o)
    \/ ConnectFail(o)
    \/ \E empty \in BOOLEAN : RemoteOk(o, empty)
    \/ RemoteFail(o)
    \/ Deliver(o)

(* The conversation of operation o has closed.                             *)
Orphaned(o) ==
    /\ ops[o].pc # "idle"
    /\ ops[o].via # 0
    /\ convs[ops[o].via].state = "closed"

----------------------------------------------------------------------------
(* The imap functions.                                                     *)

(* The uids of a sequence of records.                                      *)
UidsOf(rows) == [i \in DOMAIN rows |-> rows[i].uid]

Ascending(s) == \A i \in DOMAIN s, j \in DOMAIN s : i < j => s[i] <= s[j]

StrictlyAscending(s) == \A i \in DOMAIN s, j \in DOMAIN s : i < j => s[i] < s[j]

Min(a, b) == IF a < b THEN a ELSE b

(* C11: whatever the order in which the fetch stream yields its records,   *)
(* the list searchMessages and readMessages return is sorted ascending by  *)
(* uid and holds one row per record of the stream.                         *)
C11_ResultSortedByUid ==
    (call.fn \in {"searchMessages", "readMessages"} /\ call.returned)
    => /\ Ascending(UidsOf(call.result))
       /\ Len(call.result) = Len(call.stream)
       /\ Range(UidsOf(call.result)) = Range(UidsOf(call.stream))

(* searchMessages has returned three rows from a stream that yielded them  *)
(* in descending order.                                                    *)
C11_Witness ==
    /\ call.fn = "searchMessages"
    /\ call.returned
    /\ Len(call.stream) = MaxUid
    /\ \A i \in 1..(MaxUid - 1) : call.stream[i].uid > call.stream[i + 1].uid

(* The number of uids searchMessages is to fetch of a search result of n   *)
(* uids under the call's limit.                                            *)
Wanted(n) == IF call.limit = NoLimit THEN n ELSE Min(n, call.limit)

(* C12 as stated: searchMessages fetches the first min(N, L) uids of the   *)
(* search result in the order of the reply, and returns a list of exactly  *)
(* that length.                                                            *)
C12_FetchesFirstAndReturnsThatMany ==
    (call.fn = "searchMessages" /\ call.returned /\ call.searched.kind = "array")
    => LET n == Len(call.searched.list) IN
       /\ n > 0 => call.fetches = <<SubSeq(call.searched.list, 1, Wanted(n))>>
       /\ Len(call.result) = Wanted(n)

(* C12 amended: searchMessages fetches the first min(N, L) uids of the     *)
(* search result in the order of the reply; it returns one row per record  *)
(* the fetch yields, at most that many, and exactly that many when every   *)
(* fetched uid yields a record.                                            *)
C12_FetchesFirstUids ==
    (call.fn = "searchMessages" /\ call.returned /\ call.searched.kind = "array")
    => LET n == Len(call.searched.list) IN
       /\ n > 0 => call.fetches = <<SubSeq(call.searched.list, 1, Wanted(n))>>
       /\ n = 0 => call.fetches = <<>>
       /\ Len(call.result) = Len(call.stream)
       /\ Len(call.result) <= Wanted(n)
       /\ (n > 0 /\ Range(UidsOf(call.stream)) = Range(call.fetches[1]))
             => Len(call.result) = Wanted(n)

(* A search result of three uids that is not ascending was cut to the      *)
(* first two, and both were fetched and returned.                          *)
C12_Witness ==
    /\ call.fn = "searchMessages"
    /\ call.returned
    /\ call.searched.kind = "array"
    /\ Len(call.searched.list) = MaxUid
    /\ call.searched.list[1] > call.searched.list[2]
    /\ call.limit = 2
    /\ Len(call.result) = 2

(* C13: readMessages called with a non-empty list issues one fetch, whose  *)
(* argument is strictly ascending and holds exactly the uids of the list,  *)
(* and returns at most one record per uid of the list.                     *)
C13_ReadMessagesFetchesUniqueSorted ==
    (call.fn = "readMessages" /\ call.uids # <<>>)
    => /\ Len(call.fetches) <= 1
       /\ call.returned
          => /\ Len(call.fetches) = 1
             /\ StrictlyAscending(call.fetches[1])
             /\ Range(call.fetches[1]) = Range(call.uids)
             /\ Range(UidsOf(call.result)) \subseteq Range(call.uids)
             /\ StrictlyAscending(UidsOf(call.result))

(* readMessages has returned two records for a list of three uids with a   *)
(* duplicate, given in descending order.                                   *)
C13_Witness ==
    /\ call.fn = "readMessages"
    /\ call.returned
    /\ Len(call.uids) = MaxList
    /\ call.uids[1] > call.uids[2]
    /\ call.uids[1] = call.uids[3]
    /\ Len(call.result) = 2

(* C14: readMessages called with an empty list returns an empty list at    *)
(* once: no getClient, mailboxOpen or fetch, and the pool, the clients and *)
(* the calls in flight are unchanged.                                      *)
C14_EmptyListTouchesNothing ==
    [][(call.fn = "none" /\ call'.fn = "readMessages" /\ call'.uids = <<>>)
         => /\ call'.returned
            /\ call'.result = <<>>
            /\ call'.trace = <<>>
            /\ call'.fetches = <<>>
            /\ UNCHANGED <<pool, clients, nextClient, ops>>]_vars

(* readMessages has returned for an empty list while the pool has no entry *)
(* for the account and an entry for another.                               *)
C14_Witness ==
    /\ call.fn = "readMessages"
    /\ call.uids = <<>>
    /\ call.returned
    /\ PoolGet(call.acct) = {}
    /\ pool # {}

(* C15: readMessage fetches the one uid it was given; on an empty stream   *)
(* it returns null, and its handler reports the message as not found;      *)
(* otherwise it returns the normalised first record.                       *)
C15_ReadMessageOneUid ==
    (call.fn = "readMessage")
    => /\ Len(call.uids) = 1
       /\ call.fetches \in {<<>>, <<call.uids>>}
       /\ call.returned
          => /\ call.fetches = <<call.uids>>
             /\ call.stream = <<>>
                => /\ call.absent
                   /\ call.result = <<>>
                   /\ ops[1].pc = "failed"
                   /\ ops[1].err = "notfound"
             /\ call.stream # <<>>
                => /\ ~call.absent
                   /\ ops[1].pc = "done"
                   /\ Len(call.result) = 1
                   /\ call.result[1].uid = call.stream[1].uid
                   /\ call.result[1].shape = "full"

(* readMessage has returned null.                                          *)
C15_Witness ==
    /\ call.fn = "readMessage"
    /\ call.returned
    /\ call.stream = <<>>
    /\ call.absent

(* C17: listAccounts returns one item per account, in order, holding the   *)
(* account's name, description and IMAP user name and nothing else; no     *)
(* field of an item is a password.                                         *)
C17_ListAccountsHidesPassword ==
    (call.fn = "listAccounts" /\ call.returned)
    => /\ Len(call.result) = Len(call.accounts)
       /\ \A i \in DOMAIN call.result :
             /\ DOMAIN call.result[i] = {"name", "description", "imapUsername"}
             /\ call.result[i].name = call.accounts[i].name
             /\ call.result[i].description = call.accounts[i].description
             /\ call.result[i].imapUsername = call.accounts[i].imap.auth.user
             /\ \A f \in DOMAIN call.result[i] :
                   \A a \in AccountRecords : call.result[i][f] # a.imap.auth.pass

(* listAccounts has returned two items for two accounts with different     *)
(* names and passwords, one of them without a description.                 *)
C17_Witness ==
    /\ call.fn = "listAccounts"
    /\ call.returned
    /\ Len(call.result) = 2
    /\ call.accounts[1].name # call.accounts[2].name
    /\ call.accounts[1].imap.auth.pass # call.accounts[2].imap.auth.pass
    /\ call.accounts[1].description = Undefined

(* C18: loadConfig ends either with the configuration ConfigSchema.parse   *)
(* returned for a file that is readable, is JSON and passes the schema, or *)
(* with a ConfigError and no configuration; an unreadable file, invalid    *)
(* JSON and a schema failure each end with a ConfigError.                  *)
C18_LoadConfigValidOrConfigError ==
    cfg.pc = "done"
    => /\ cfg.outcome.kind \in {"Config", "ConfigError"}
       /\ cfg.outcome.kind = "Config"
          => /\ cfg.file.readable
             /\ cfg.file.json
             /\ SchemaAccepts(cfg.file.raw)
             /\ cfg.outcome.config.accounts = "ok"
             /\ cfg.outcome.config.server \in {"default", "ok"}
       /\ cfg.outcome.kind = "ConfigError"
          => cfg.outcome.config = NoConfig
       /\ (~cfg.file.readable \/ ~cfg.file.json \/ ~SchemaAccepts(cfg.file.raw))
          => cfg.outcome.kind = "ConfigError"

(* loadConfig has failed on a file that cannot be read.                    *)
C18_Witness ==
    /\ cfg.pc = "done"
    /\ ~cfg.file.readable
    /\ cfg.outcome.kind = "ConfigError"
    /\ cfg.outcome.stage = "read"

----------------------------------------------------------------------------
(* Failures inside the routes.                                             *)

(* A step in which the handling of a request fails: mcp.connect or         *)
(* transport.handleRequest throws.                                         *)
FailureStep ==
    \/ \E p \in PendingIds : CreateConnectFail(p) \/ CreateConnectOk(p, TRUE)
    \/ \E key \in Keys, body \in Bodies, hdrOk \in BOOLEAN :
          PostKnown(key, body, hdrOk, TRUE)
    \/ \E key \in Keys : GetRequest(key, TRUE) \/ DeleteRequest(key, TRUE)

(* C16: a failure while a request is handled, on any route, is answered    *)
(* by the router with the generic internal error: status 500 and a         *)
(* JSON-RPC error with code -32603.                                        *)
C16_FailureBecomesInternalError ==
    [][FailureStep
         => /\ last'.status = 500
            /\ last'.structured
            /\ last'.code = -32603]_vars

----------------------------------------------------------------------------
(* The pool under overlapping acquires.                                    *)

(* The sessions the pool holds.                                            *)
Pooled == {e.client : e \in pool}

(* C19: every pool entry holds a session whose connect has resolved; a     *)
(* session that is still connecting, or whose connect failed, is in no     *)
(* entry, so no lookup finds one.                                          *)
C19_PoolHoldsConnectedOnly ==
    /\ \A e \in pool : clients[e.client].state \in {"usable", "dropped", "closed"}
    /\ \A o \in OpIds :
          ops[o].pc = "connecting"
          => /\ clients[ops[o].client].state = "connecting"
             /\ ops[o].client \notin Pooled
             /\ \A e \in PoolGet(ops[o].acct) : e.client # ops[o].client

(* An acquire is suspended in connect while the pool holds an entry for    *)
(* its account, whose session is no longer usable.                         *)
C19_Witness ==
    \E o \in OpIds :
       /\ ops[o].pc = "connecting"
       /\ PoolGet(ops[o].acct) # {}

(* Acquires o1 and o2 of one account overlap under a cold cache: o1 is     *)
(* suspended in connect, and o2 is suspended as well or has connected its  *)
(* own session, which the pool holds.                                      *)
Overlap(o1, o2) ==
    /\ o1 # o2
    /\ ops[o1].acct = ops[o2].acct
    /\ ops[o1].pc = "connecting"
    /\ ops[o1].client # ops[o2].client
    /\ \/ ops[o2].pc = "connecting"
       \/ InFlight(o2) /\ ops[o2].client \in Pooled

----------------------------------------------------------------------------
(* The reaper and the frame of the pool.                                   *)

(* C21: a reaper pass in which close throws on some entries still ends:    *)
(* every stale entry, the throwing ones included, is removed and close was *)
(* called on its session, the other entries stay, and no operation in      *)
(* flight is affected.                                                     *)
C21_CloseFailureSwallowed ==
    [][\A thrown \in SUBSET pool :
         (thrown # {} /\ Reaper(thrown))
         => /\ ~reaperDue'
            /\ \A e \in thrown :
                  /\ e \notin pool'
                  /\ clients'[e.client].closeCalled
                  /\ clients'[e.client].state = clients[e.client].state
            /\ \A e \in pool \ thrown :
                  IF now - e.lastUsed > IdleThresholdMs
                  THEN /\ e \notin pool'
                       /\ clients'[e.client].closeCalled
                       /\ clients'[e.client].state = "closed"
                  ELSE e \in pool'
            /\ ops' = ops]_vars

(* After a pass no entry is left: close was called on two sessions, threw  *)
(* on one and closed the other.                                            *)
C21_Witness ==
    /\ ~reaperDue
    /\ pool = {}
    /\ \E c1 \in ClientIds, c2 \in ClientIds :
          /\ clients[c1].closeCalled /\ clients[c1].state = "usable"
          /\ clients[c2].closeCalled /\ clients[c2].state = "closed"

(* A step in which getClient is entered or resumed for operation o.        *)
AcquireStep(o) ==
    \/ ops[o].pc = "idle" /\ ops'[o].pc \in {"connecting", "mailboxOpen"}
    \/ ops[o].pc = "connecting" /\ ops'[o].pc = "mailboxOpen"

(* A step in which the reaper runs.                                        *)
ReaperStep == reaperDue /\ ~reaperDue'

(* A step in which close is called on a session.                           *)
CloseStep == \E c \in ClientIds : clients'[c].closeCalled /\ ~clients[c].closeCalled

(* C22: the pool changes only when an acquire inserts, replaces or         *)
(* refreshes the entry of its own account, or when the reaper deletes      *)
(* entries, and only the reaper calls close; a remote command that fails,  *)
(* an operation that ends, and a conversation that is created or           *)
(* terminated change no entry and close no session.                        *)
C22_PoolChangedByAcquireAndReaperOnly ==
    /\ [][pool' # pool
            => \/ \E o \in OpIds :
                     /\ AcquireStep(o)
                     /\ {e \in pool' : e.key # ops'[o].acct}
                           = {e \in pool : e.key # ops'[o].acct}
                     /\ \A e \in pool' :
                           e.key = ops'[o].acct
                           => e.client = ops'[o].client /\ e.lastUsed = now
               \/ ReaperStep /\ pool' \subseteq pool]_vars
    /\ [][CloseStep => ReaperStep]_vars
    /\ [][(\/ \E o \in OpIds : InFlight(o) /\ ops'[o].pc \in {"failed", "done"}
           \/ \E o \in OpIds : ops[o].pc # "idle" /\ ops'[o].pc = "idle"
           \/ created' # created
           \/ sessions' # sessions
           \/ \E t \in ConvIds : convs'[t].state # convs[t].state)
            => /\ pool' = pool
               /\ ~CloseStep]_vars

(* A conversation has closed and its operation has failed on a remote      *)
(* command, while the pool still holds the session the operation used,     *)
(* not closed.                                                             *)
C22_Witness ==
    \E o \in OpIds :
       /\ Orphaned(o)
       /\ ops[o].pc = "failed"
       /\ ops[o].err = "remote"
       /\ \E e \in pool : /\ e.client = ops[o].client
                          /\ ~clients[e.client].closeCalled

(* C24: the reaper never calls close on a session that an operation in     *)
(* flight obtained from getClient.                                         *)
C24_ReaperSparesSessionsInUse ==
    [][\A c \in ClientIds :
         (clients'[c].closeCalled /\ ~clients[c].closeCalled)
         => ~\E o \in OpIds : InFlight(o) /\ ops[o].client = c]_vars

(* C25: the session an acquire returns is usable and the pool has not      *)
(* called close on it: it is either the session this call constructed,     *)
(* whose connect has just resolved, or the session of the account's pool   *)
(* entry, which stays in the pool.                                         *)
C25_AcquireReturnsLiveSession ==
    [][\A o \in OpIds :
         (AcquireStep(o) /\ ops'[o].pc = "mailboxOpen")
         => LET c == ops'[o].client IN
            /\ ~clients'[c].closeCalled
            /\ clients'[c].state = "usable"
            /\ clients'[c].acct = ops'[o].acct
            /\ \E e \in pool' : e.key = ops'[o].acct /\ e.client = c
            /\ IF ops[o].pc = "connecting"
               THEN /\ c = ops[o].client
                    /\ clients[c].state = "connecting"
               ELSE /\ \E e \in pool : e.key = ops'[o].acct /\ e.client = c
                    /\ clients[c].state = "usable"
                    /\ ~clients[c].closeCalled]_vars

(* After the reaper has closed and evicted the session of one account, an  *)
(* acquire has returned the cached session of another account.             *)
C25_Witness ==
    \E o \in OpIds, c \in ClientIds :
       /\ InFlight(o)
       /\ ops[o].client # c
       /\ clients[c].closeCalled
       /\ \E e \in pool : /\ e.client = ops[o].client
                          /\ e.lastUsed > 0
                          /\ clients[e.client].state = "usable"

----------------------------------------------------------------------------
(* The attachments of a message.                                           *)

(* The parts of a body structure, the root first and every part before     *)
(* the parts below it.                                                     *)
RECURSIVE PartsBelow(_)
PartsBelow(parts) ==
    IF parts = <<>> THEN <<>>
    ELSE <<Head(parts)>> \o Head(parts).childNodes \o PartsBelow(Tail(parts))

AllParts(bodyStructure) == <<bodyStructure>> \o PartsBelow(bodyStructure.childNodes)

AttachmentType(p) == p.disposition \in {"attachment", "ATTACHMENT"}

(* C23: the attachments of toFullMessage hold, in order, one item for      *)
(* every part of the body structure, at any depth and the root included,   *)
(* whose disposition type is "attachment" in any case, and no other item.  *)
C23_AttachmentsAtAnyDepth ==
    (call.fn = "toFullMessage" /\ call.returned)
    => LET parts == SelectSeq(AllParts(call.bodyStructure), AttachmentType) IN
       call.result = [i \in DOMAIN parts |-> [contentType |-> parts[i].type]]

----------------------------------------------------------------------------
(* Conversations whose creation failed.                                    *)

(* The request that created conversation t is answered with a failure:     *)
(* mcp.connect rejected, or the new transport threw on, or rejected, the   *)
(* initialize request.                                                     *)
CreationFails(p, t) ==
    /\ pending[p].pc = "connect"
    /\ pending[p].conv = t
    /\ pending'[p].pc = "idle"
    /\ last'.created = t
    /\ last'.status # 200

(* C26: when connecting the new server to its transport fails, or the      *)
(* initialize request on the new transport fails or is rejected, the       *)
(* session table holds no entry of that conversation once the request is   *)
(* answered.                                                               *)
C26_FailedCreationLeavesNoEntry ==
    [][\A p \in PendingIds, t \in ConvIds :
          CreationFails(p, t) => \A s \in sessions' : s.transport # t]_vars

====
